---- MODULE Spec2Model ----
(***************************************************************************)
(* Model of demo/app.py: the Gradio demo that parses an uploaded document  *)
(* with docling and exports it to html / markdown / json / text.           *)
(*                                                                         *)
(* State: the process-wide pipeline_options object, the session's widgets  *)
(* (file_output, doc, status, output, file_extension, download_status),    *)
(* the working directory, and the position of the parse_document           *)
(* generator.  One action per event handler; the parse_document generator  *)
(* is one action per resumption.                                           *)
(***************************************************************************)
EXTENDS Integers, Sequences, FiniteSets, TLC

(***************************************************************************)
(* Python values that travel through the handlers.  Text is a sequence of  *)
(* tokens (the characters that matter to json are tokens of their own), a  *)
(* mapping is a sequence of key/value members.                             *)
(***************************************************************************)
None == [t |-> "None"]
Str(s) == [t |-> "str", s |-> s]
Dict(m) == [t |-> "dict", m |-> m]
Document(path) == [t |-> "DoclingDocument", origin |-> path]

Q == "\""
BS == "\\"
NL == "\n"
Indent4 == "    "

(***************************************************************************)
(* The external library's exporters (docling_core), deterministic in the   *)
(* document.                                                               *)
(***************************************************************************)
export_to_html(d) == Str(<<"<html>", d.origin, "</html>">>)
export_to_markdown(d) == Str(<<"# ", d.origin>>)
export_to_text(d) == Str(<<d.origin>>)
export_to_dict(d) == Dict(<<[k |-> "schema_name", v |-> "DoclingDocument"], [k |-> "name", v |-> d.origin]>>)

(***************************************************************************)
(* str(x) as Python computes it: text is returned as it is, a dict is      *)
(* rendered as its repr, {'k': 'v', ...}, with single-quoted members.      *)
(***************************************************************************)
RECURSIVE PyReprMembers(_)
PyReprMembers(m) ==
    IF m = <<>> THEN <<>>
    ELSE <<"'", Head(m).k, "'", ":", " ", "'", Head(m).v, "'">>
         \o (IF Len(m) > 1 THEN <<",", " ">> ELSE <<>>)
         \o PyReprMembers(Tail(m))

PyStr(x) ==
    CASE x.t = "str" -> x
      [] x.t = "dict" -> Str(<<"{">> \o PyReprMembers(x.m) \o <<"}">>)
      [] OTHER -> Str(<<"None">>)

(***************************************************************************)
(* json.dump(x, f, indent=4) and json.load, on text and on flat mappings.  *)
(***************************************************************************)
RECURSIVE JsonEscape(_)
JsonEscape(s) ==
    IF s = <<>> THEN <<>>
    ELSE (CASE Head(s) = Q -> <<BS, Q>>
            [] Head(s) = BS -> <<BS, BS>>
            [] Head(s) = NL -> <<BS, "n">>
            [] OTHER -> <<Head(s)>>)
         \o JsonEscape(Tail(s))

RECURSIVE JsonUnescape(_)
JsonUnescape(s) ==
    IF s = <<>> THEN <<>>
    ELSE IF Head(s) = BS /\ Len(s) > 1
         THEN <<(IF s[2] = "n" THEN NL ELSE s[2])>> \o JsonUnescape(Tail(Tail(s)))
         ELSE <<Head(s)>> \o JsonUnescape(Tail(s))

RECURSIVE JsonMembers(_)
JsonMembers(m) ==
    IF m = <<>> THEN <<>>
    ELSE <<NL, Indent4, Q>> \o JsonEscape(<<Head(m).k>>) \o <<Q, ":", " ", Q>>
         \o JsonEscape(<<Head(m).v>>) \o <<Q>>
         \o (IF Len(m) > 1 THEN <<",">> ELSE <<NL>>)
         \o JsonMembers(Tail(m))

JsonDump(x) ==
    CASE x.t = "str" -> <<Q>> \o JsonEscape(x.s) \o <<Q>>
      [] x.t = "dict" -> <<"{">> \o JsonMembers(x.m) \o <<"}">>
      [] OTHER -> <<"null">>

\* The members of an indented object text, read back: each member is the
\* ten tokens  NL Indent4 Q key Q : space Q value Q  followed by , or NL.
RECURSIVE JsonParseMembers(_)
JsonParseMembers(s) ==
    IF Len(s) < 11 \/ s[1] # NL \/ s[2] # Indent4 THEN <<>>
    ELSE <<[k |-> s[4], v |-> s[9]]>> \o JsonParseMembers(SubSeq(s, 12, Len(s)))

JsonLoad(s) ==
    CASE s # <<>> /\ Head(s) = Q -> Str(JsonUnescape(SubSeq(s, 2, Len(s) - 1)))
      [] s # <<>> /\ Head(s) = "{" -> Dict(JsonParseMembers(Tail(s)))
      [] OTHER -> None

(***************************************************************************)
(* Module level of app.py: the process-wide options object and the table   *)
(* of OCR engines offered by the dropdown.                                 *)
(***************************************************************************)
EngineKeys == {"EasyOCR (Default)", "Tesseract", "RapidOCR", "OcrMac (Mac only)"}

engines_available ==
    [k \in EngineKeys |->
        CASE k = "EasyOCR (Default)" -> "EasyOcrOptions"
          [] k = "Tesseract" -> "TesseractOcrOptions"
          [] k = "RapidOCR" -> "RapidOcrOptions"
          [] OTHER -> "OcrMacOptions"]

\* What the dropdown can hand to parse_document: one of its choices, or
\* nothing selected (the dropdown is created without a value).
EngineSelectors == EngineKeys \cup {"None"}

\* pipeline_options after lines 15-19: the library's defaults, with the
\* accelerator switched to CUDA when torch finds a device.
InitialPipelineOptions(cuda) ==
    [device |-> IF cuda THEN "CUDA" ELSE "AUTO",
     cuda_use_flash_attention2 |-> cuda,
     ocr_options |-> "EasyOcrOptions",
     do_code_enrichment |-> FALSE,
     do_formula_enrichment |-> FALSE,
     generate_picture_images |-> FALSE,
     images_scale |-> 1,
     do_picture_classification |-> FALSE,
     do_picture_description |-> FALSE,
     picture_description_options |-> "smolvlm_picture_description",
     prompt |-> "library default"]

PROMPT == "Describe the image in three sentences. Be concise and accurate."
IMAGES_SCALE == 2

\* Fault: line 54 left out, so image generation follows the classification
\* flag alone (line 46).
BuildOptionsNoPictureImages(po, ocr, r) ==
    [po EXCEPT !.ocr_options = ocr,
               !.do_code_enrichment = r.do_code_enrichment,
               !.do_formula_enrichment = r.do_formula_enrichment,
               !.generate_picture_images = r.do_picture_classification,
               !.images_scale = IMAGES_SCALE,
               !.do_picture_classification = r.do_picture_classification,
               !.do_picture_description = r.do_picture_description,
               !.picture_description_options = "smolvlm_picture_description",
               !.prompt = PROMPT]

\* Fault: code enrichment is switched on when asked for and never switched
\* off again, so the shared object remembers an earlier request.
BuildOptionsSticky(po, ocr, r) ==
    [po EXCEPT !.ocr_options = ocr,
               !.do_code_enrichment = (po.do_code_enrichment \/ r.do_code_enrichment),
               !.do_formula_enrichment = r.do_formula_enrichment,
               !.generate_picture_images = TRUE,
               !.images_scale = IMAGES_SCALE,
               !.do_picture_classification = r.do_picture_classification,
               !.do_picture_description = r.do_picture_description,
               !.picture_description_options = "smolvlm_picture_description",
               !.prompt = PROMPT]

\* Lines 42-54 of parse_document: every assignment to pipeline_options, in
\* order.  ocr is the entry engines_available[engine] found at line 42.
BuildOptions(po, ocr, r) ==
    LET o1 == [po EXCEPT !.ocr_options = ocr]
        o2 == [o1 EXCEPT !.do_code_enrichment = r.do_code_enrichment,
                         !.do_formula_enrichment = r.do_formula_enrichment,
                         !.generate_picture_images = r.do_picture_classification,
                         !.images_scale = IMAGES_SCALE,
                         !.do_picture_classification = r.do_picture_classification]
        o3 == [o2 EXCEPT !.do_picture_description = r.do_picture_description,
                         !.picture_description_options = "smolvlm_picture_description",
                         !.prompt = PROMPT,
                         !.images_scale = IMAGES_SCALE,
                         !.generate_picture_images = TRUE]
    IN  o3

\* Fault: engines_available.get(engine, EasyOcrOptions()), which never raises.
LookupEngineDefault(engine) ==
    IF engine \in DOMAIN engines_available
    THEN [raised |-> "none", value |-> engines_available[engine]]
    ELSE [raised |-> "none", value |-> "EasyOcrOptions"]

\* engines_available[engine] at line 42: the entry, or KeyError.
LookupEngine(engine) ==
    IF engine \in DOMAIN engines_available
    THEN [raised |-> "none", value |-> engines_available[engine]]
    ELSE [raised |-> "KeyError", value |-> "none"]

(***************************************************************************)
(* The export handlers, lines 68-81.  Each returns (content, tag); on a    *)
(* doc that is None the attribute lookup raises and nothing is returned.   *)
(***************************************************************************)
Tags == {"html", "md", "json", "txt"}
Returned(content, tag) == [raised |-> "none", content |-> content, tag |-> tag]
Raised(e) == [raised |-> e]
NoResult == [raised |-> "not called"]

to_html(d) == IF d = None THEN Raised("AttributeError") ELSE Returned(export_to_html(d), "html")
to_markdown(d) == IF d = None THEN Raised("AttributeError") ELSE Returned(export_to_markdown(d), "md")
to_json(d) == IF d = None THEN Raised("AttributeError") ELSE Returned(export_to_dict(d), "json")
to_text(d) == IF d = None THEN Raised("AttributeError") ELSE Returned(export_to_text(d), "txt")

\* The handler wired to each of the four buttons, lines 183-202.
Handler(tag, d) ==
    CASE tag = "html" -> to_html(d)
      [] tag = "md" -> to_markdown(d)
      [] tag = "json" -> to_json(d)
      [] OTHER -> to_text(d)

\* What a gr.Text output holds after a handler returned x for it: the
\* textbox keeps text, so any other value is shown as str(x).
Textbox(x) == IF x = None THEN None ELSE PyStr(x)

\* f"doc.{file_extension}" at line 89, and 'doc.json' at line 86.
FileName(ext) == IF ext = Str(<<"json">>) THEN <<"doc.", "json">> ELSE <<"doc.">> \o PyStr(ext).s

\* What download_file writes into the file it opened (lines 85-90):
\* json.dump output for the json tag, the text itself otherwise.  Writing
\* None to a text file raises TypeError after the file was created.
FileContent(content, ext) ==
    IF ext = Str(<<"json">>) THEN [raised |-> "none", text |-> JsonDump(content)]
    ELSE IF content.t = "str" THEN [raised |-> "none", text |-> content.s]
    ELSE [raised |-> "TypeError", text |-> <<>>]

\* The three status texts (lines 40, 65, 91); their emoji are spelled out.
PARSING == "Parsing document... (hourglass)"
DONE == "Done (check mark)"
DOWNLOADED == "Downloaded (check mark)"

UploadPaths == {"a.pdf", "b.png"}
Flags == BOOLEAN \X BOOLEAN \X BOOLEAN \X BOOLEAN
Unchecked == <<FALSE, FALSE, FALSE, FALSE>>
SessionKeys == {"EasyOCR (Default)", "Tesseract"}
SessionSelectors == SessionKeys \cup {"None"}
MaxEvents == 6
NoRequest == [engine |-> "-"]
NoOptions == [device |-> "-"]

VARIABLES
    cuda,              \* torch.cuda.is_available() at import
    pipeline_options,  \* the process-wide PdfPipelineOptions object
    file_output,       \* gr.File: path of the uploaded file, or None
    doc,               \* gr.State: the session's document
    status,            \* gr.Markdown under the parse button
    output,            \* gr.Text "Output"
    file_extension,    \* gr.Text, hidden
    download_status,   \* gr.Markdown under the download button
    cwd,               \* files download_file created: name -> content
    pc,                \* parse_document generator: idle, yielded, converting
    req,               \* arguments of the running parse_document call
    signals,           \* what the running/last parse_document call yielded
    handed,            \* pipeline_options as given to DocumentConverter
    invoked,           \* converter.convert was called by this request
    ended,             \* how the last parse_document call ended
    raised,            \* exception that ended it
    docBefore,         \* doc when the parse button was clicked
    stale,             \* pipeline_options as the running request found it
    shown,             \* result of the last click of each export button since the last parse signal
    repeated,          \* the last export click repeated an earlier one
    exported,          \* what the handler returned for the content now in output
    downloaded,        \* the last download click: what it wrote, where, and how it ended
    events             \* number of user events so far

ui == <<file_output, doc, status, output, file_extension, download_status>>
parse == <<pc, req, signals, handed, invoked, ended, raised, docBefore, stale>>
vars == <<cuda, pipeline_options, ui, cwd, parse, shown, repeated, exported, downloaded, events>>

NoDownload == [outcome |-> "not clicked"]

\* An untouched gr.Text hands the handler an empty value: the empty string
\* or None, depending on the toolkit's version.
Blank == {Str(<<>>), None}

Init ==
    /\ cuda \in BOOLEAN
    /\ pipeline_options = InitialPipelineOptions(cuda)
    /\ file_output = None
    /\ doc = None
    /\ status = ""
    /\ output \in Blank
    /\ file_extension = output
    /\ download_status = ""
    /\ cwd = <<>>
    /\ pc = "idle"
    /\ req = NoRequest
    /\ signals = <<>>
    /\ handed = NoOptions
    /\ invoked = FALSE
    /\ ended = "never run"
    /\ raised = "none"
    /\ docBefore = None
    /\ stale = NoOptions
    /\ shown = [t \in Tags |-> NoResult]
    /\ repeated = FALSE
    /\ exported = NoResult
    /\ downloaded = NoDownload
    /\ events = 0

\* upload_file, lines 93-94 (the gr.File widget keeps the path).
Upload(path) ==
    /\ file_output' = Str(<<path>>)
    /\ UNCHANGED <<cuda, pipeline_options, doc, status, output, file_extension,
                   download_status, cwd, parse, shown, repeated, exported, downloaded>>

\* Fault: the generator starts without its first yield, so the outputs
\* [doc, status] are not touched when the button is clicked.
ParseClickNoYield(engine, flags) ==
    /\ pc = "idle"
    /\ req' = [file_path |-> file_output, engine |-> engine,
               do_code_enrichment |-> flags[1], do_formula_enrichment |-> flags[2],
               do_picture_classification |-> flags[3], do_picture_description |-> flags[4]]
    /\ docBefore' = doc
    /\ signals' = <<>>
    /\ handed' = NoOptions
    /\ invoked' = FALSE
    /\ ended' = "running"
    /\ raised' = "none"
    /\ pc' = "yielded"
    /\ shown' = [t \in Tags |-> NoResult]
    /\ repeated' = FALSE
    /\ UNCHANGED <<cuda, pipeline_options, file_output, doc, status, output, file_extension,
                   download_status, cwd, stale, exported, downloaded>>

\* parse_button.click, lines 171-182, up to the first yield (line 40):
\* the outputs [doc, status] receive (None, "Parsing document...").  The
\* toolkit runs one call of a listener at a time, so a click is served
\* once the previous parse_document call has ended.
ParseClick(engine, flags) ==
    /\ pc = "idle"
    /\ req' = [file_path |-> file_output, engine |-> engine,
               do_code_enrichment |-> flags[1], do_formula_enrichment |-> flags[2],
               do_picture_classification |-> flags[3], do_picture_description |-> flags[4]]
    /\ docBefore' = doc
    /\ doc' = None
    /\ status' = PARSING
    /\ signals' = <<[doc |-> None, status |-> PARSING]>>
    /\ handed' = NoOptions
    /\ invoked' = FALSE
    /\ ended' = "running"
    /\ raised' = "none"
    /\ pc' = "yielded"
    /\ shown' = [t \in Tags |-> NoResult]
    /\ repeated' = FALSE
    /\ UNCHANGED <<cuda, pipeline_options, file_output, output, file_extension,
                   download_status, cwd, stale, exported, downloaded>>

\* The generator resumed: lines 42-61.  An unknown selector raises at line
\* 42 before anything is assigned; otherwise the options are assigned and
\* the converter is constructed over them.
ParseConfigure ==
    /\ pc = "yielded"
    /\ LET e == LookupEngine(req.engine) IN
       IF e.raised # "none"
       THEN /\ raised' = e.raised
            /\ ended' = "failed"
            /\ pc' = "idle"
            /\ req' = NoRequest
            /\ UNCHANGED <<pipeline_options, handed, stale>>
       ELSE /\ pipeline_options' = BuildOptions(pipeline_options, e.value, req)
            /\ handed' = pipeline_options'
            /\ stale' = pipeline_options
            /\ pc' = "converting"
            /\ UNCHANGED <<raised, ended, req>>
    /\ UNCHANGED <<cuda, ui, cwd, signals, invoked, docBefore, shown, repeated,
                   exported, downloaded>>

\* converter.convert(file_path), line 63, and the second yield, line 65.
\* The engine raises on no file and may raise on any file.
ParseConvert(ok) ==
    /\ pc = "converting"
    /\ invoked' = TRUE
    /\ IF ok /\ req.file_path # None
       THEN /\ doc' = Document(req.file_path.s[1])
            /\ status' = DONE
            /\ signals' = Append(signals, [doc |-> doc', status |-> DONE])
            /\ ended' = "done"
            /\ UNCHANGED raised
       ELSE /\ raised' = "ConversionError"
            /\ ended' = "failed"
            /\ UNCHANGED <<doc, status, signals>>
    /\ pc' = "idle"
    /\ req' = NoRequest
    /\ stale' = NoOptions
    /\ shown' = [t \in Tags |-> NoResult]
    /\ repeated' = FALSE
    /\ UNCHANGED <<cuda, pipeline_options, file_output, output, file_extension,
                   download_status, cwd, handed, docBefore, exported, downloaded>>

\* Fault: the buttons wired with outputs=[doc, file_extension] and the
\* content left out, so a click clears the session's document.
ExportClickIntoDoc(tag) ==
    LET r == Handler(tag, doc) IN
    /\ IF r.raised = "none"
       THEN /\ doc' = None
            /\ file_extension' = Textbox(Str(<<r.tag>>))
       ELSE UNCHANGED <<doc, file_extension>>
    /\ shown' = [shown EXCEPT ![tag] = r]
    /\ repeated' = (shown[tag] # NoResult)
    /\ UNCHANGED <<cuda, pipeline_options, file_output, output, status, download_status,
                   cwd, parse, exported, downloaded>>

\* html_button / markdown_button / json_button / text_button .click, lines
\* 183-202: inputs doc, outputs [output, file_extension].
ExportClick(tag) ==
    LET r == Handler(tag, doc) IN
    /\ IF r.raised = "none"
       THEN /\ output' = Textbox(r.content)
            /\ file_extension' = Textbox(Str(<<r.tag>>))
            /\ exported' = r
       ELSE UNCHANGED <<output, file_extension, exported>>
    /\ shown' = [shown EXCEPT ![tag] = r]
    /\ repeated' = (shown[tag] # NoResult)
    /\ UNCHANGED <<cuda, pipeline_options, file_output, doc, status, download_status,
                   cwd, parse, downloaded>>

\* download_button.click, lines 203-207, running download_file, lines 83-91.
\* fs is the file system's answer: the write goes through, open() raises, or
\* the write raises after open() created the file.
DownloadClick(fs) ==
    LET name == FileName(file_extension)
        c == FileContent(output, file_extension)
        written == IF fs = "ok" /\ c.raised = "none" THEN c.text ELSE <<>>
        outcome == IF fs # "ok" THEN "OSError" ELSE c.raised
    IN
    /\ cwd' = IF fs = "open raises" THEN cwd
              ELSE [n \in DOMAIN cwd \cup {name} |-> IF n = name THEN written ELSE cwd[n]]
    /\ download_status' = IF outcome = "none" THEN DOWNLOADED ELSE download_status
    /\ downloaded' = [outcome |-> outcome, name |-> name, result |-> exported,
                      ext |-> file_extension]
    /\ UNCHANGED <<cuda, pipeline_options, file_output, doc, status, output,
                   file_extension, parse, shown, repeated, exported>>

\* A user's click or upload; the session is followed for MaxEvents of them.
UserEvent(A) == events < MaxEvents /\ events' = events + 1 /\ A
\* The toolkit resuming the generator is no event of the user's.
Resume(A) == UNCHANGED events /\ A

\* The session: every widget the user can reach.  The checkboxes are left
\* at their initial value (False, lines 138-149); the dropdown is left
\* unselected or set to one of SessionKeys.
Next ==
    \/ \E path \in UploadPaths : UserEvent(Upload(path))
    \/ \E engine \in SessionSelectors : UserEvent(ParseClick(engine, Unchecked))
    \/ Resume(ParseConfigure)
    \/ \E ok \in BOOLEAN : Resume(ParseConvert(ok))
    \/ \E tag \in Tags : UserEvent(ExportClick(tag))
    \/ \E fs \in {"ok", "open raises", "write raises"} : UserEvent(DownloadClick(fs))

Spec == Init /\ [][Next]_vars

\* Parse requests alone, over every selector and every setting of the four
\* checkboxes, for any number of requests.
ParseNext ==
    \/ \E path \in UploadPaths : Resume(Upload(path))
    \/ \E engine \in EngineSelectors, flags \in Flags : Resume(ParseClick(engine, flags))
    \/ Resume(ParseConfigure)
    \/ \E ok \in BOOLEAN : Resume(ParseConvert(ok))

ParseSpec == Init /\ [][ParseNext]_vars

(***************************************************************************)
(* Properties.                                                             *)
(***************************************************************************)
InProgress == [doc |-> None, status |-> PARSING]

\* C1: a parse_document call that converts its file yields exactly two
\* signals, (None, in progress) and then (a document, done), which the
\* outputs [doc, status] receive; it yields nothing after the second, and
\* the converter runs only once the first signal is out.
C1_TwoSignalsInOrder ==
    /\ Len(signals) <= 2
    /\ (pc # "idle" => signals = <<InProgress>>)
    /\ (invoked => Len(signals) >= 1 /\ signals[1] = InProgress)
    /\ (ended = "done" =>
            /\ pc = "idle" /\ invoked
            /\ Len(signals) = 2
            /\ signals[1] = InProgress
            /\ signals[2].doc # None /\ signals[2].status = DONE
            /\ doc = signals[2].doc /\ status = DONE)

C1_Witness == ended = "done" /\ Len(signals) = 2 /\ doc # None /\ docBefore # None

\* C2 as stated: after a failed parse the stored document is the one the
\* session held when the button was clicked.
C2_FailedParseKeepsDocument == ended = "failed" => doc = docBefore

\* C2 amended: after a failed parse the stored document is None, whatever
\* the session held when the button was clicked; the failed request stores
\* no document of its own.
C2_FailedParseLeavesNone == ended = "failed" => doc = None /\ Len(signals) = 1

C2_Witness == ended = "failed" /\ docBefore # None /\ doc = None

\* C3: whenever classification or description is asked for, the options
\* the converter is built over have picture images on and scale 2.0, for
\* every engine and every setting of the other flags.
C3_PictureFlagsImplyImages ==
    (pc = "converting" /\ (req.do_picture_classification \/ req.do_picture_description)) =>
        handed.generate_picture_images = TRUE /\ handed.images_scale = 2

C3_Witness ==
    /\ pc = "converting"
    /\ req.do_picture_description /\ ~req.do_picture_classification
    /\ handed.generate_picture_images /\ handed.images_scale = 2

\* C4 as stated: with classification and description both off, the
\* options carry the selected engine and have picture images off.
C4_NoPictureFlagsNoImages ==
    (pc = "converting" /\ ~req.do_picture_classification /\ ~req.do_picture_description) =>
        /\ handed.ocr_options = engines_available[req.engine]
        /\ handed.generate_picture_images = FALSE

\* C5: when the generator leaves its first yield, a selector that is one
\* of the four keys gets the converter built over that engine's options and
\* no other; any other selector (nothing selected included) ends the
\* request with the lookup's error, the configuration error of this
\* program, and convert is never called for the request.
C5_EngineSelection ==
    [][ /\ (pc = "yielded" /\ pc' # "yielded") =>
             IF req.engine \in {"EasyOCR (Default)", "Tesseract", "RapidOCR", "OcrMac (Mac only)"}
             THEN /\ pc' = "converting"
                  /\ handed' = pipeline_options'
                  /\ handed'.ocr_options =
                        (CASE req.engine = "EasyOCR (Default)" -> "EasyOcrOptions"
                           [] req.engine = "Tesseract" -> "TesseractOcrOptions"
                           [] req.engine = "RapidOCR" -> "RapidOcrOptions"
                           [] req.engine = "OcrMac (Mac only)" -> "OcrMacOptions")
             ELSE /\ pc' = "idle" /\ ended' = "failed" /\ raised' = "KeyError"
                  /\ handed' = NoOptions /\ ~invoked'
                  /\ pipeline_options' = pipeline_options
        /\ (raised' = "KeyError" => ~invoked' /\ handed' = NoOptions)
      ]_vars

C5_Witness == raised = "KeyError" /\ ended = "failed" /\ ~invoked /\ docBefore # None

\* C8: the options the converter is built over are those a process that
\* has served no request would build for the same five inputs: nothing of
\* an earlier request, failed or not, is left in the shared object.
C8_OptionsIndependentOfHistory ==
    pc = "converting" =>
        /\ req.engine \in EngineKeys
        /\ handed = pipeline_options
        /\ handed = BuildOptions(InitialPipelineOptions(cuda), engines_available[req.engine], req)

C8_Witness ==
    /\ pc = "converting"
    /\ stale.do_code_enrichment /\ ~req.do_code_enrichment
    /\ stale.do_picture_classification /\ ~req.do_picture_classification
    /\ stale.ocr_options # handed.ocr_options
    /\ ~handed.do_code_enrichment

\* C6 as stated: the file of the last download that went through holds
\* the exported content: for json, indented JSON that loads to the mapping
\* export_to_dict returned; for html, md and txt, the exported text.
C6_DownloadRoundTrips ==
    (downloaded.outcome = "none" /\ downloaded.result.raised = "none") =>
        IF downloaded.result.tag = "json"
        THEN JsonLoad(cwd[downloaded.name]) = downloaded.result.content
        ELSE cwd[downloaded.name] = downloaded.result.content.s

\* C7 as stated: every file download_file has created is doc.<ext> with
\* ext one of html, md, json, txt.
C7_FileNames == \A n \in DOMAIN cwd : n \in {<<"doc.", e>> : e \in Tags}

\* C9 as stated: after a failed parse the status is neither the
\* in-progress text nor done, and after a failed file write the download
\* status reports the failure.
C9_FailuresAreShown ==
    /\ (ended = "failed" => status \notin {PARSING, DONE})
    /\ (downloaded.outcome \notin {"none", "not clicked"} =>
            download_status \notin {"", DOWNLOADED})

\* C10: an export click leaves the session's document alone, and a click
\* on a button already clicked since the last parse signal returns the same
\* (content, tag) as that earlier click.
C10_ExportRepeatable ==
    [][ \A tag \in Tags :
            ExportClick(tag) =>
                /\ doc' = doc
                /\ (shown[tag] # NoResult => shown'[tag] = shown[tag])
      ]_vars

C10_Witness ==
    /\ repeated
    /\ exported.raised = "none"
    /\ shown[exported.tag] = exported
    /\ doc # None

====
